---- MODULE Spec2Model ----
(***************************************************************************)
(* Wohnungssuche agent: the command-line front-end (main.py) and the       *)
(* Streamlit front-end (streamlit_app.py).                                 *)
(*                                                                         *)
(* Representation of text.  A Python str is modelled as a sequence of      *)
(* tokens (TLA+ strings); the text is the concatenation of its tokens.     *)
(* A token that can end up first or last in a text that is stripped is     *)
(* either whitespace only or has a non-whitespace character at that end,   *)
(* so that str.strip() is exactly "drop the leading and trailing           *)
(* whitespace tokens".  The empty str is << >>.  Non-ASCII characters of   *)
(* the source literals are transliterated (ue, oe, ss, EUR, -).            *)
(*                                                                         *)
(* The scraped markdown, which the code slices by character, is modelled   *)
(* run-length encoded: a sequence of runs [c |-> character, n |-> count].  *)
(***************************************************************************)
EXTENDS Naturals, Sequences, FiniteSets, TLC

----------------------------------------------------------------------------
(* Text helpers *)

\* The whitespace-only tokens used by the model.
WS == {" ", "\n", "\n\n", "\n    ", "\n        ", "  "}

\* str.strip(): drop leading and trailing whitespace.
RECURSIVE LStrip(_)
LStrip(s) == IF s = << >> THEN << >>
             ELSE IF Head(s) \in WS THEN LStrip(Tail(s)) ELSE s

RECURSIVE RStrip(_)
RStrip(s) == IF s = << >> THEN << >>
             ELSE IF s[Len(s)] \in WS THEN RStrip(SubSeq(s, 1, Len(s) - 1)) ELSE s

Strip(s) == RStrip(LStrip(s))

\* str.upper() on the two about-labels that reach it.
Upper(label) == CASE label = "About me" -> "ABOUT ME"
                  [] label = "About us" -> "ABOUT US"
                  [] OTHER -> label

\* Length in characters of a run-length encoded text.
RECURSIVE RLen(_)
RLen(r) == IF r = << >> THEN 0 ELSE Head(r).n + RLen(Tail(r))

\* A slice that forgets the limit: r[:] .
RTakeMutant(r, k) == r

\* r[:k] on a run-length encoded text.
RECURSIVE RTake(_, _)
RTake(r, k) ==
    IF r = << >> \/ k = 0 THEN << >>
    ELSE IF Head(r).n <= k
         THEN <<Head(r)>> \o RTake(Tail(r), k - Head(r).n)
         ELSE <<[c |-> Head(r).c, n |-> k]>>

\* The character at position i (1-based) of a run-length encoded text.
RECURSIVE RCharAt(_, _)
RCharAt(r, i) == IF i <= Head(r).n THEN Head(r).c ELSE RCharAt(Tail(r), i - Head(r).n)

----------------------------------------------------------------------------
(* Constants of main.py *)

\* main.py keeps the surrounding newlines of its triple-quoted literals.
CLI_APPLICANT_INFO ==
    <<"\n",
      "Wir sind Nils (26) und Minh-Kha (30). Gemeinsam verfuegen wir ueber ein gesichertes \nmonatliches Nettoeinkommen von ca. 9.000 EUR - beide ruhige, zuverlaessige, Nichtraucher \nohne Haustiere. Nils arbeitet als Unternehmensberater bei Bain, Minh-Kha startet im \nFebruar bei Celonis und zieht dafuer aus Zuerich nach Muenchen.",
      "\n">>

CLI_WEBSITE_INFO ==
    <<"\n",
      "Um Ihnen einen schnellen Ueberblick zu ermoeglichen, haben wir eine kleine Website mit allen Unterlagen zu uns eingerichtet:\nhttps://nils-und-minhkha.lovable.app\n\nPasswort fuer den Dokumentenbereich: NiMi!2026",
      "\n">>

----------------------------------------------------------------------------
(* Constants of streamlit_app.py (each literal is .strip()ped) *)

APPLICANT_INFO_COUPLE ==
    Strip(<<"\n",
      "Wir sind Nils (26) und Minh-Kha (30). Gemeinsam verfuegen wir ueber ein gesichertes \nmonatliches Nettoeinkommen von ca. 9.000 EUR - beide ruhige, zuverlaessige, Nichtraucher \nohne Haustiere. Nils arbeitet als Unternehmensberater bei Bain, Minh-Kha startet im \nFebruar bei Celonis und zieht dafuer aus Zuerich nach Muenchen.",
      "\n">>)

APPLICANT_INFO_SINGLE ==
    Strip(<<"\n",
      "Ich bin Minh-Kha (30), starte ab Februar bei Celonis und ziehe dafuer aus Zuerich nach Muenchen. \nDarueber hinaus verfuege ich ueber ein gesichertes monatliches Nettoeinkommen von ca. 4.500 EUR und \nbin ein ruhiger, zuverlaessiger Nichtraucher ohne Haustiere.",
      "\n">>)

WEBSITE_INFO ==
    Strip(<<"\n",
      "Um Ihnen einen schnellen Ueberblick zu ermoeglichen, haben wir eine kleine Website mit allen Unterlagen zu uns eingerichtet:\nhttps://nils-und-minhkha.lovable.app\n\nPasswort fuer den Dokumentenbereich: NiMi!2026",
      "\n">>)

WEBSITE_INFO_SINGLE ==
    Strip(<<"\n",
      "Um Ihnen einen schnellen Ueberblick zu ermoeglichen, habe ich eine kleine Website mit allen Unterlagen zu mir eingerichtet:\nhttps://nils-und-minhkha.lovable.app\n\nPasswort fuer den Dokumentenbereich: NiMi!2026",
      "\n">>)

\* The same constant in both files.
IDEAL_MOVE_IN == "Februar 2026"

\* markdown_content[:15000]
ContentCap == 15000

\* st.cache_data(ttl=60 * 60), in seconds.
CacheTtl == 60 * 60

----------------------------------------------------------------------------
(* Python values *)

\* response.choices[0].message.content is a str or None.
PyStr(t) == [none |-> FALSE, text |-> t]
PyNone == [none |-> TRUE, text |-> << >>]

\* (content or ""): None becomes the empty str.
OrEmpty(c) == IF c.none THEN << >> ELSE c.text

\* Formatting a value into an f-string or print(): None is written "None".
Fmt(c) == IF c.none THEN <<"None">> ELSE c.text

----------------------------------------------------------------------------
(* Extraction prompt.  The user message is instructions \o content, with   *)
(* the content kept apart because it is run-length encoded.                *)

EXTRACTION_SYSTEM ==
    <<"You are an expert at analyzing German real estate listings. Extract key information accurately and concisely in German.">>

\* main.py: the literal keeps its indentation and surrounding newlines.
CliExtractionInstructions ==
    <<"\n    ",
      "Analyze this immobilienscout24 listing and extract the following information in a structured format:\n    \n    - Title/Address\n    - Rent (Kaltmiete and Warmmiete if available)\n    - Size (square meters)\n    - Rooms\n    - Floor/Etage\n    - Available from (Bezugsfrei ab)\n    - Deposit (Kaution)\n    - Location/District\n    - Key features and amenities\n    - Landlord/Contact info if available\n    - Any requirements mentioned (income proof, etc.)\n    \n    Listing content:",
      "\n    ">>

\* streamlit_app.py: the literal is stripped and followed by a blank line.
StExtractionInstructions ==
    Strip(<<"\n",
      "Analyze this immobilienscout24 listing and extract the following information in a structured format:\n\n- Title/Address\n- Rent (Kaltmiete and Warmmiete if available)\n- Size (square meters)\n- Rooms\n- Floor/Etage\n- Available from (Bezugsfrei ab)\n- Deposit (Kaution)\n- Location/District\n- Key features and amenities\n- Landlord/Contact info if available\n- Any requirements mentioned (income proof, etc.)\n\nListing content:",
      "\n">>) \o <<"\n\n">>

\* The messages of the extraction call; temperature in tenths.
CliExtractionPrompt(markdown_content) ==
    [system |-> EXTRACTION_SYSTEM,
     instructions |-> CliExtractionInstructions,
     content |-> RTake(markdown_content, ContentCap),
     temperature |-> 3]

StExtractionPrompt(markdown_content) ==
    [system |-> EXTRACTION_SYSTEM,
     instructions |-> StExtractionInstructions,
     content |-> RTake(markdown_content, ContentCap),
     temperature |-> 3]

----------------------------------------------------------------------------
(* Reply prompt of main.py *)

CLI_REPLY_SYSTEM ==
    <<"You are an expert at writing German apartment application letters. \nWrite concise, warm, and professional messages. Follow the structure exactly as specified.\nAlways sign off as \"",
      "Nils & Minh-Kha",
      "\". Never use \"Sie-Form\" excessively - keep it natural.">>

CliStructure(include_website) ==
    <<"\n",
      "Based on the following apartment listing, write a short application message in German.\n\nSTRICT STRUCTURE (follow this order):\n1. Salutation (e.g., \"Guten Tag,\" or \"Guten Morgen,\")\n2. Why we like this specific listing (1-2 sentences, mention specific features from the listing)\n3. About us (use the provided info, keep it brief)\n4. Administrative stuff (moving-in date handling - see rules below)\n5. ",
      IF include_website THEN "Our website paragraph (include exactly as provided)"
                         ELSE "Skip this section",
      "\n6. Closing (express hope to hear back and see the apartment, sign off with \"Viele Gruesse, ",
      "Nils & Minh-Kha",
      "\")\n\n">>

\* A rule block that lost the branch for a later date.
CliMoveInRulesMutant ==
    <<"MOVING-IN DATE RULES (very important):\n- Our ideal move-in date is ",
      IDEAL_MOVE_IN,
      "\n- If the listing's move-in date is EARLIER than ",
      IDEAL_MOVE_IN,
      ": mention that we are flexible regarding the earlier date",
      "\n- If there is NO move-in date mentioned: mention that ideally we would move in around ",
      IDEAL_MOVE_IN,
      "\n\n">>

CliMoveInRules ==
    <<"MOVING-IN DATE RULES (very important):\n- Our ideal move-in date is ",
      IDEAL_MOVE_IN,
      "\n- If the listing's move-in date is EARLIER than ",
      IDEAL_MOVE_IN,
      ": mention that we are flexible regarding the earlier date",
      "\n- If the listing's move-in date is LATER than ",
      IDEAL_MOVE_IN,
      ": mention that the stated date works perfectly for us",
      "\n- If there is NO move-in date mentioned: mention that ideally we would move in around ",
      IDEAL_MOVE_IN,
      "\n\n">>

CliWebsiteBlock(include_website) ==
    IF include_website
    THEN <<"WEBSITE SECTION (include this exactly if the listing mentions required documents like SCHUFA, income proof, etc.):">>
         \o CLI_WEBSITE_INFO
    ELSE << >>

CliExample ==
    <<"\n\nEXAMPLE MESSAGE FOR REFERENCE (adapt style but don't copy):\n---\nGuten Morgen,\n\ndie Wohnung in der Schwanthalerhoehe hat uns sofort angesprochen. Besonders der grosszuegige, offene Grundriss, der Balkon sowie die zentrale Lage passen sehr gut zu dem, was wir suchen.\n\nKurz zu uns:\n",
      "Wir sind Nils (26) und Minh-Kha (30). Gemeinsam verfuegen wir ueber ein gesichertes monatliches Nettoeinkommen von ca. 9.000 EUR - beide ruhige, zuverlaessige, Nichtraucher ohne Haustiere. Nils arbeitet als Unternehmensberater bei Bain, Minh-Kha startet im Februar bei Celonis und zieht dafuer aus Zuerich nach Muenchen.",
      "\n\nWir wuerden uns sehr freuen, von Ihnen zu hoeren und die Wohnung persoenlich besichtigen zu duerfen.\n\nViele Gruesse  \n",
      "Nils & Minh-Kha",
      "\n---\n\nNow write the message:",
      "\n">>

\* The f-string reply_prompt of main.py.
CliReplyUser(listing_info, max_words, include_website) ==
    CliStructure(include_website)
    \o CliMoveInRules
    \o <<"ABOUT US (use this info):\n">> \o CLI_APPLICANT_INFO \o <<"\n\n">>
    \o CliWebsiteBlock(include_website)
    \o <<"\n\nSTYLE GUIDELINES:\n- Maximum ", ToString(max_words),
         " words total\n- Warm but professional tone\n- No subject line needed\n- Don't be overly formal, keep it natural\n- Reference specific features from the listing to show genuine interest\n\nLISTING INFORMATION:\n">>
    \o Fmt(listing_info.extracted_info)
    \o CliExample

CliReplyPrompt(listing_info, max_words, include_website) ==
    [system |-> CLI_REPLY_SYSTEM,
     user |-> CliReplyUser(listing_info, max_words, include_website),
     temperature |-> 7]

----------------------------------------------------------------------------
(* Reply prompt of streamlit_app.py *)

ST_REPLY_SYSTEM ==
    <<"You are an expert at writing German apartment application letters.\nWrite concise, warm, and professional messages. Follow the structure exactly as specified.\nAlways use the provided sign-off exactly. Never use \"Sie-Form\" excessively - keep it natural.">>

\* A selection that takes the sign-off of the couple for both profiles.
ProfileFieldsMutant(applicant_profile, include_website) ==
    IF applicant_profile = "single"
    THEN [applicant_info |-> APPLICANT_INFO_SINGLE,
          website_section |-> IF include_website THEN WEBSITE_INFO_SINGLE ELSE << >>,
          about_label |-> "About me",
          sign_off |-> <<"\n        ", "Viele Gruesse, \n        Nils & Minh-Kha", "\n        ">>,
          pronoun_de |-> "ich"]
    ELSE [applicant_info |-> APPLICANT_INFO_COUPLE,
          website_section |-> IF include_website THEN WEBSITE_INFO ELSE << >>,
          about_label |-> "About us",
          sign_off |-> <<"\n        ", "Viele Gruesse, \n        Nils & Minh-Kha", "\n        ">>,
          pronoun_de |-> "wir"]

\* The profile-dependent locals of generate_reply (lines 152-169); the
\* sign-off literals keep their indentation.
ProfileFields(applicant_profile, include_website) ==
    IF applicant_profile = "single"
    THEN [applicant_info |-> APPLICANT_INFO_SINGLE,
          website_section |-> IF include_website THEN WEBSITE_INFO_SINGLE ELSE << >>,
          about_label |-> "About me",
          sign_off |-> <<"\n        ", "Viele Gruesse, \n        Minh-Kha", "\n        ">>,
          pronoun_de |-> "ich"]
    ELSE [applicant_info |-> APPLICANT_INFO_COUPLE,
          website_section |-> IF include_website THEN WEBSITE_INFO ELSE << >>,
          about_label |-> "About us",
          sign_off |-> <<"\n        ", "Viele Gruesse, \n        Nils & Minh-Kha", "\n        ">>,
          pronoun_de |-> "wir"]

\* additional_instructions: the stripped custom prompt under its heading,
\* or nothing when it is empty after stripping.
AdditionalInstructions(custom_prompt) ==
    IF Strip(OrEmpty(custom_prompt)) # << >>
    THEN <<"\n\n", "ADDITIONAL USER INSTRUCTIONS (optional; follow these as long as they don't violate the structure/rules above):\n">>
         \o Strip(OrEmpty(custom_prompt))
    ELSE << >>

StStructure(f, include_website) ==
    <<"\n",
      "Based on the following apartment listing, write a short application message in German.\n\nSTRICT STRUCTURE (follow this order):\n1. Salutation (e.g., \"Guten Tag,\" or \"Guten Morgen,\")\n2. Why we like this specific listing (1-2 sentences, mention specific features from the listing; adapt to ",
      f.pronoun_de,
      ")\n3. ",
      f.about_label,
      " (use the provided info, keep it brief)\n4. Administrative stuff (moving-in date handling - see rules below)\n5. ",
      IF include_website THEN "Our website paragraph (include exactly as provided)"
                         ELSE "Skip this section",
      "\n6. Closing (express hope to hear back and see the apartment, sign off with \"">>
    \o f.sign_off
    \o <<"\")\n\n">>

\* A rule block that keeps only the branch for a listing without a date.
StMoveInRulesMutant(f) ==
    <<"MOVING-IN DATE RULES (very important):\n- Our ideal move-in date is ",
      IDEAL_MOVE_IN,
      "\n- If there is NO move-in date mentioned: mention that ideally we would move in around ",
      IDEAL_MOVE_IN,
      "\n\n">>

StMoveInRules(f) ==
    <<"MOVING-IN DATE RULES (very important):\n- Our ideal move-in date is ",
      IDEAL_MOVE_IN,
      "\n- If the listing's move-in date is EARLIER than ",
      IDEAL_MOVE_IN,
      ": mention that ",
      f.pronoun_de,
      " flexibel bezueglich des frueheren Datums bin/sind (grammatically correct)",
      "\n- If the listing's move-in date is LATER than ",
      IDEAL_MOVE_IN,
      ": mention that das genannte Datum fuer ",
      f.pronoun_de,
      " perfekt passt",
      "\n- If there is NO move-in date mentioned: mention that ideally we would move in around ",
      IDEAL_MOVE_IN,
      "\n\n">>

\* A website block that is emitted whatever the flag says.
StWebsiteBlockMutant(f, include_website) ==
    <<"WEBSITE SECTION (include this exactly if the listing mentions required documents like SCHUFA, income proof, etc.):",
      "\n">> \o WEBSITE_INFO

\* Line 198; os.linesep is written "\n".
StWebsiteBlock(f, include_website) ==
    IF include_website
    THEN <<"WEBSITE SECTION (include this exactly if the listing mentions required documents like SCHUFA, income proof, etc.):",
           "\n">> \o f.website_section
    ELSE << >>

\* The f-string reply_prompt of streamlit_app.py, before .strip().
StReplyUserRaw(listing_info, max_words, include_website, applicant_profile, custom_prompt) ==
    LET f == ProfileFields(applicant_profile, include_website) IN
    StStructure(f, include_website)
    \o StMoveInRules(f)
    \o <<Upper(f.about_label), " (use this info):\n">> \o f.applicant_info \o <<"\n\n">>
    \o StWebsiteBlock(f, include_website)
    \o <<"\n\nSTYLE GUIDELINES:\n- Maximum ", ToString(max_words),
         " words total\n- Warm but professional tone\n- No subject line needed\n- Don't be overly formal, keep it natural\n- Reference specific features from the listing to show genuine interest\n\nLISTING INFORMATION:\n">>
    \o Fmt(listing_info.extracted_info)
    \o <<"\n">>
    \o AdditionalInstructions(custom_prompt)
    \o <<"\n\n", "Now write the message:", "\n">>

StReplyPrompt(listing_info, max_words, include_website, applicant_profile, custom_prompt) ==
    [system |-> ST_REPLY_SYSTEM,
     user |-> Strip(StReplyUserRaw(listing_info, max_words, include_website,
                                   applicant_profile, custom_prompt)),
     temperature |-> 7]

----------------------------------------------------------------------------
(* Bounds and input domains *)

\* Longest scraped markdown, in characters over ContentCap.
MaxOver == 1

\* Seconds that pass in one step of the clock, and how many steps are taken.
TickStep == 1800
MaxTicks == 2

\* Scraped markdown: none, short, exactly the cap, and over the cap (the
\* cut then falls inside the last run).
Markdowns ==
    {<< >>,
     <<[c |-> "a", n |-> 3]>>,
     <<[c |-> "a", n |-> ContentCap]>>}
    \cup {<<[c |-> "a", n |-> ContentCap - 1], [c |-> "b", n |-> 1 + k]>> : k \in 1..MaxOver}

\* The markdown the listing pages serve in the pipeline.
ServedMarkdowns ==
    {<< >>,
     <<[c |-> "a", n |-> 3]>>,
     <<[c |-> "a", n |-> ContentCap - 1], [c |-> "b", n |-> 2]>>}

\* What firecrawl.scrape_url does: it raises, or returns a result whose
\* "markdown" is (possibly empty) text.  Without a valid key it can only fail.
FetchOutcomes(key_ok) ==
    {[kind |-> "error", markdown |-> << >>]}
    \cup (IF key_ok THEN {[kind |-> "ok", markdown |-> m] : m \in ServedMarkdowns} ELSE {})

\* Structured summaries the model may write: availability earlier than,
\* later than the ideal date, or not stated.
SummaryEarlier == <<"Kaltmiete 1.500 EUR\nBezugsfrei ab: 01.01.2026">>
SummaryLater == <<" ", "Kaltmiete 1.500 EUR\nBezugsfrei ab: 01.06.2026", "\n">>
SummaryAbsent == <<"Kaltmiete 1.500 EUR">>

\* What chat.completions.create does for the extraction: it raises, or
\* returns a content that is None, empty, blank or text.
ExtractionOutcomes(key_ok) ==
    {[kind |-> "error", content |-> PyNone]}
    \cup (IF key_ok
          THEN {[kind |-> "ok", content |-> c] :
                  c \in {PyNone, PyStr(<<" ", "\n">>),
                         PyStr(SummaryEarlier), PyStr(SummaryLater)}}
          ELSE {})

ReplyOutcomes(key_ok) ==
    {[kind |-> "error", content |-> PyNone]}
    \cup (IF key_ok
          THEN {[kind |-> "ok", content |-> c] :
                  c \in {PyNone, PyStr(<<"\n">>),
                         PyStr(<<"\n", "Guten Tag,\n...\nViele Gruesse", "\n">>)}}
          ELSE {})

\* Listing URLs.
Url1 == <<"https://www.immobilienscout24.de/expose/1">>
Url2 == <<"https://www.immobilienscout24.de/expose/2">>
Urls == {Url1, Url2}

\* The command line: url, --words (any int), --no-website.
CliArgs ==
    [url : Urls, max_words : {0, 150}, include_website : BOOLEAN,
     applicant_profile : {"couple"}, custom_prompt : {PyNone}]

\* The widgets: text input (may be empty, blank or padded), slider 60..250,
\* checkbox, radio, text area.
StInputUrls == {<< >>, <<" ">>, Url1, <<" ">> \o Url2 \o <<" ">>}
StArgs ==
    [url : {<< >>}, max_words : {60, 150}, include_website : BOOLEAN,
     applicant_profile : {"couple", "single"},
     custom_prompt : {PyNone, PyStr(<< >>), PyStr(<<" ">>),
                      PyStr(<<" ", "bitte in Du-Form", "\n">>)}]

\* The widget settings used in the pipeline.
StRunArgs ==
    {a \in StArgs : /\ a.max_words = 150
                    /\ a.custom_prompt \in {PyStr(<< >>), PyStr(<<" ", "bitte in Du-Form", "\n">>)}}

NoArgs == [url |-> << >>, max_words |-> 150, include_website |-> TRUE,
           applicant_profile |-> "couple", custom_prompt |-> PyNone]

----------------------------------------------------------------------------
(* State *)

VARIABLES
    app,              \* which front-end this process is: "cli" or "streamlit"
    creds,            \* [firecrawl, openai]: is the key present in the environment
    clients,          \* the client pair is constructed (module level / cache_resource)
    pc,               \* position of the process
    args,             \* the inputs of the request being served
    markdown_content, \* local of extract_listing_info
    listing,          \* << >> or <<listing_info>>: result of extract_listing_info
    reply,            \* << >> or <<reply text>>: result of generate_reply
    calls,            \* external calls made for the request, in order
    extraction_request, \* << >> or <<messages of the extraction call>>
    reply_request,    \* << >> or <<messages of the reply call>>
    stdout,           \* cli: what was printed, in order
    exit_code,        \* cli: "running", "0" or "1"
    cache,            \* streamlit: st.cache_data of extract_listing_info, by url
    now,              \* streamlit: the clock, in seconds
    session_state     \* streamlit: [last_result, last_error], each << >> or <<v>>

vars == <<app, creds, clients, pc, args, markdown_content, listing, reply, calls,
          extraction_request, reply_request, stdout, exit_code, cache, now,
          session_state>>

CredsOk == creds.firecrawl /\ creds.openai

Init ==
    /\ app \in {"cli", "streamlit"}
    /\ creds \in [firecrawl : BOOLEAN, openai : BOOLEAN]
    /\ clients = FALSE
    /\ pc = IF app = "cli" THEN "start" ELSE "idle"
    /\ args = NoArgs
    /\ markdown_content = << >>
    /\ listing = << >>
    /\ reply = << >>
    /\ calls = << >>
    /\ extraction_request = << >>
    /\ reply_request = << >>
    /\ stdout = << >>
    /\ exit_code = "running"
    /\ cache = [u \in Urls |-> << >>]
    /\ now = 0
    /\ session_state = [last_result |-> << >>, last_error |-> << >>]

----------------------------------------------------------------------------
(* Error messages: str(e) of the exceptions raised *)

MsgFetchFailed == "<exception raised by firecrawl.scrape_url>"
MsgGenerationFailed == "<exception raised by chat.completions.create>"
MsgCliNoContent == "Could not extract content from the listing"
MsgStNoContent == "Could not extract content from the listing (no markdown returned)."
MsgStNoSecrets == "Missing required secrets: FIRECRAWL_API_KEY and/or OPENAI_API_KEY. Set them as environment variables or via Streamlit Secrets."
MsgStEmptyExtraction == "Extraction returned empty content."
MsgStInvalidProfile == "Invalid applicant_profile. Use 'couple' or 'single'."
MsgStEmptyReply == "Reply generation returned empty content."
MsgStNoUrl == "Bitte eine URL eingeben."

Printed(what, text) == [what |-> what, text |-> text]
Call(svc, key_ok) == [svc |-> svc, key_ok |-> key_ok]

----------------------------------------------------------------------------
(* main.py *)

\* main()'s except branch: print the error, sys.exit(1).
CliFail(msg) ==
    /\ stdout' = Append(stdout, Printed("error", <<msg>>))
    /\ exit_code' = "1"
    /\ pc' = "exit"

\* Module import, lines 14-18: the clients are built from os.getenv()
\* unchecked.  Whether a constructor rejects a missing key is not decided by
\* this file, so with a key missing both outcomes are possible; a rejection
\* is an uncaught exception at import.
CliImport ==
    /\ app = "cli" /\ pc = "start"
    /\ \E rejected \in (IF CredsOk THEN {FALSE} ELSE BOOLEAN) :
          IF rejected
          THEN /\ clients' = FALSE
               /\ exit_code' = "1"
               /\ pc' = "exit"
          ELSE /\ clients' = TRUE
               /\ pc' = "main"
               /\ UNCHANGED exit_code
    /\ UNCHANGED <<app, creds, args, markdown_content, listing, reply, calls,
                   extraction_request, reply_request, stdout, cache, now, session_state>>

\* main() up to the scrape: parse the arguments, print the banner and the
\* "scraping" line of extract_listing_info.
CliMain ==
    /\ app = "cli" /\ pc = "main"
    /\ \E a \in CliArgs : args' = a
    /\ stdout' = stdout \o <<Printed("banner", << >>), Printed("scraping", args'.url)>>
    /\ pc' = "fetch"
    /\ UNCHANGED <<app, creds, clients, markdown_content, listing, reply, calls,
                   extraction_request, reply_request, exit_code, cache, now, session_state>>

\* extract_listing_info, lines 45-57: the scrape and the empty-content check.
CliFetch ==
    /\ app = "cli" /\ pc = "fetch"
    /\ calls' = Append(calls, Call("fetch", creds.firecrawl))
    /\ \E o \in FetchOutcomes(creds.firecrawl) :
          IF o.kind = "error"
          THEN CliFail(MsgFetchFailed) /\ UNCHANGED markdown_content
          ELSE IF o.markdown = << >>
          THEN CliFail(MsgCliNoContent) /\ UNCHANGED markdown_content
          ELSE /\ markdown_content' = o.markdown
               /\ stdout' = Append(stdout, Printed("scraped", << >>))
               /\ pc' = "extract"
               /\ UNCHANGED exit_code
    /\ UNCHANGED <<app, creds, clients, args, listing, reply, extraction_request,
                   reply_request, cache, now, session_state>>

\* What extract_listing_info of main.py returns for a response content.
CliListingInfo(url, markdown, content) ==
    [url |-> url, raw_markdown |-> markdown, extracted_info |-> content]

\* extract_listing_info, lines 78-100, and process_listing, lines 205-208:
\* the extraction call, then the extracted information is printed.
CliExtract ==
    /\ app = "cli" /\ pc = "extract"
    /\ calls' = Append(calls, Call("extract", creds.openai))
    /\ extraction_request' = <<CliExtractionPrompt(markdown_content)>>
    /\ \E o \in ExtractionOutcomes(creds.openai) :
          IF o.kind = "error"
          THEN CliFail(MsgGenerationFailed) /\ UNCHANGED listing
          ELSE /\ listing' = <<CliListingInfo(args.url, markdown_content, o.content)>>
               /\ stdout' = stdout \o <<Printed("extracted", << >>),
                                        Printed("facts", Fmt(listing'[1].extracted_info)),
                                        Printed("generating", << >>)>>
               /\ pc' = "reply"
               /\ UNCHANGED exit_code
    /\ UNCHANGED <<app, creds, clients, args, markdown_content, reply, reply_request,
                   cache, now, session_state>>

\* generate_reply, lines 114-186, and process_listing, lines 213-220.
CliReply ==
    /\ app = "cli" /\ pc = "reply"
    /\ calls' = Append(calls, Call("reply", creds.openai))
    /\ reply_request' = <<CliReplyPrompt(listing[1], args.max_words, args.include_website)>>
    /\ \E o \in ReplyOutcomes(creds.openai) :
          IF o.kind = "error"
          THEN CliFail(MsgGenerationFailed) /\ UNCHANGED reply
          ELSE /\ reply' = <<o.content>>
               /\ stdout' = stdout \o <<Printed("generated", << >>),
                                        Printed("reply", Fmt(o.content)),
                                        Printed("done", << >>)>>
               /\ exit_code' = "0"
               /\ pc' = "exit"
    /\ UNCHANGED <<app, creds, clients, args, markdown_content, listing,
                   extraction_request, cache, now, session_state>>

\* The process has ended; the command is run again in a new process.
CliRestart ==
    /\ app = "cli" /\ pc = "exit"
    /\ clients' = FALSE
    /\ pc' = "start"
    /\ args' = NoArgs
    /\ markdown_content' = << >>
    /\ listing' = << >>
    /\ reply' = << >>
    /\ calls' = << >>
    /\ extraction_request' = << >>
    /\ reply_request' = << >>
    /\ stdout' = << >>
    /\ exit_code' = "running"
    /\ UNCHANGED <<app, creds, cache, now, session_state>>

----------------------------------------------------------------------------
(* streamlit_app.py *)

\* _get_clients, lines 64-73: raises unless both secrets are set.
GetClientsRaises == ~creds.firecrawl \/ ~creds.openai

\* A cache that never expires its entries.
CacheHitMutant(u) == cache[u] # << >>

\* st.cache_data(ttl=60 * 60): an entry is served while it is younger than
\* the ttl.
CacheHit(u) == cache[u] # << >> /\ now < cache[u][1].stored + CacheTtl

\* An except branch that also throws the last result away.
StFailMutant(msg) ==
    /\ session_state' = [last_result |-> << >>, last_error |-> <<msg>>]
    /\ pc' = "shown"

\* The except branch of the run handler, line 305, then the script goes on
\* to the display.
StFail(msg) ==
    /\ session_state' = [session_state EXCEPT !.last_error = <<msg>>]
    /\ pc' = "shown"

\* A script run with the generate button pressed, lines 282-290, up to the
\* first external call: last_error is cleared, the url is checked and
\* stripped, and extract_listing_info is entered through its cache.
StRun ==
    /\ app = "streamlit" /\ pc = "idle"
    /\ \E input_url \in StInputUrls, a \in StRunArgs :
          /\ args' = [a EXCEPT !.url = Strip(input_url)]
          /\ IF Strip(input_url) = << >>
             THEN /\ StFail(MsgStNoUrl)
                  /\ UNCHANGED <<clients, listing, cache>>
             ELSE IF CacheHit(args'.url)
             THEN /\ listing' = <<cache[args'.url][1].value>>
                  /\ session_state' = [session_state EXCEPT !.last_error = << >>]
                  /\ pc' = "reply"
                  /\ UNCHANGED <<clients, cache>>
             ELSE /\ cache' = [cache EXCEPT ![args'.url] = << >>]
                  /\ IF GetClientsRaises
                     THEN /\ StFail(MsgStNoSecrets)
                          /\ UNCHANGED <<clients, listing>>
                     ELSE /\ clients' = TRUE
                          /\ session_state' = [session_state EXCEPT !.last_error = << >>]
                          /\ pc' = "fetch"
                          /\ UNCHANGED listing
    /\ UNCHANGED <<app, creds, markdown_content, reply, calls, extraction_request,
                   reply_request, stdout, exit_code, now>>

\* extract_listing_info, lines 84-93: the scrape and the empty-content check.
StFetch ==
    /\ app = "streamlit" /\ pc = "fetch"
    /\ calls' = Append(calls, Call("fetch", creds.firecrawl))
    /\ \E o \in FetchOutcomes(creds.firecrawl) :
          IF o.kind = "error"
          THEN StFail(MsgFetchFailed) /\ UNCHANGED markdown_content
          ELSE IF o.markdown = << >>
          THEN StFail(MsgStNoContent) /\ UNCHANGED markdown_content
          ELSE /\ markdown_content' = o.markdown
               /\ pc' = "extract"
               /\ UNCHANGED session_state
    /\ UNCHANGED <<app, creds, clients, args, listing, reply, extraction_request,
                   reply_request, stdout, exit_code, cache, now>>

\* Line 128: (content or "").strip()
StExtractedInfo(content) == Strip(OrEmpty(content))

\* extract_listing_info, lines 113-136: the extraction call, the empty-result
\* check, and the cache entry written for the value returned.
StExtract ==
    /\ app = "streamlit" /\ pc = "extract"
    /\ calls' = Append(calls, Call("extract", creds.openai))
    /\ extraction_request' = <<StExtractionPrompt(markdown_content)>>
    /\ \E o \in ExtractionOutcomes(creds.openai) :
          IF o.kind = "error"
          THEN StFail(MsgGenerationFailed) /\ UNCHANGED <<listing, cache>>
          ELSE IF StExtractedInfo(o.content) = << >>
          THEN StFail(MsgStEmptyExtraction) /\ UNCHANGED <<listing, cache>>
          ELSE /\ listing' = <<[url |-> args.url,
                                raw_markdown |-> markdown_content,
                                extracted_info |-> PyStr(StExtractedInfo(o.content))]>>
               /\ cache' = [cache EXCEPT ![args.url] =
                                <<[value |-> listing'[1], stored |-> now]>>]
               /\ pc' = "reply"
               /\ UNCHANGED session_state
    /\ UNCHANGED <<app, creds, clients, args, markdown_content, reply, reply_request,
                   stdout, exit_code, now>>

\* Line 228: (content or "").strip()
StReplyText(content) == Strip(OrEmpty(content))

\* generate_reply, lines 147-231, and the run handler, lines 299-303: the
\* secrets and profile checks, the reply call, the empty-result check, and
\* last_result written on success.
StReply ==
    /\ app = "streamlit" /\ pc = "reply"
    /\ IF GetClientsRaises
       THEN StFail(MsgStNoSecrets) /\ UNCHANGED <<clients, calls, reply_request, reply>>
       ELSE IF args.applicant_profile \notin {"couple", "single"}
       THEN StFail(MsgStInvalidProfile) /\ clients' = TRUE
            /\ UNCHANGED <<calls, reply_request, reply>>
       ELSE /\ clients' = TRUE
            /\ calls' = Append(calls, Call("reply", creds.openai))
            /\ reply_request' = <<StReplyPrompt(listing[1], args.max_words,
                                    args.include_website, args.applicant_profile,
                                    args.custom_prompt)>>
            /\ \E o \in ReplyOutcomes(creds.openai) :
                  IF o.kind = "error"
                  THEN StFail(MsgGenerationFailed) /\ UNCHANGED reply
                  ELSE IF StReplyText(o.content) = << >>
                  THEN StFail(MsgStEmptyReply) /\ UNCHANGED reply
                  ELSE /\ reply' = <<PyStr(StReplyText(o.content))>>
                       /\ session_state' = [session_state EXCEPT !.last_result =
                              <<[url |-> args.url, listing_info |-> listing[1],
                                 reply |-> StReplyText(o.content)]>>]
                       /\ pc' = "shown"
    /\ UNCHANGED <<app, creds, args, markdown_content, listing, extraction_request,
                   stdout, exit_code, cache, now>>

\* Lines 307-317: the error and the last result are displayed and the script
\* run ends; its locals are gone, the page waits for the next interaction.
StScriptEnd ==
    /\ app = "streamlit" /\ pc = "shown"
    /\ pc' = "idle"
    /\ args' = NoArgs
    /\ markdown_content' = << >>
    /\ listing' = << >>
    /\ reply' = << >>
    /\ calls' = << >>
    /\ extraction_request' = << >>
    /\ reply_request' = << >>
    /\ UNCHANGED <<app, creds, clients, stdout, exit_code, cache, now, session_state>>

\* A script run with the reset button pressed, lines 271-273.
StReset ==
    /\ app = "streamlit" /\ pc = "idle"
    /\ session_state' = [last_result |-> << >>, last_error |-> << >>]
    /\ UNCHANGED <<app, creds, clients, pc, args, markdown_content, listing, reply,
                   calls, extraction_request, reply_request, stdout, exit_code,
                   cache, now>>

\* A script run with neither button pressed (another widget changed):
\* lines 271-273 and 282-305 are skipped, the display shows what
\* session_state holds, and nothing is written.
StRerun ==
    /\ app = "streamlit" /\ pc = "idle"
    /\ UNCHANGED vars

\* Time passes between two interactions.
Tick ==
    /\ app = "streamlit" /\ pc = "idle"
    /\ now < MaxTicks * TickStep
    /\ now' = now + TickStep
    /\ UNCHANGED <<app, creds, clients, pc, args, markdown_content, listing, reply,
                   calls, extraction_request, reply_request, stdout, exit_code,
                   cache, session_state>>

Next ==
    \/ CliImport \/ CliMain \/ CliFetch \/ CliExtract \/ CliReply \/ CliRestart
    \/ StRun \/ StFetch \/ StExtract \/ StReply \/ StScriptEnd \/ StReset \/ StRerun \/ Tick

Spec == Init /\ [][Next]_vars

----------------------------------------------------------------------------
(* The prompt builders on their own: the two pure functions applied to     *)
(* inputs drawn from the values their callers can pass.                    *)

\* What extract_listing_info can return.  main.py returns the response
\* content as it came (None, empty, padded); streamlit_app.py returns it
\* stripped and never empty.
ListingInfos(front_end) ==
    IF front_end = "cli"
    THEN {CliListingInfo(Url1, <<[c |-> "a", n |-> 3]>>, c) :
            c \in {PyNone, PyStr(<< >>), PyStr(SummaryEarlier), PyStr(SummaryLater),
                   PyStr(SummaryAbsent)}}
    ELSE {[url |-> Url1, raw_markdown |-> <<[c |-> "a", n |-> 3]>>,
           extracted_info |-> PyStr(StExtractedInfo(c))] :
            c \in {PyStr(SummaryEarlier), PyStr(SummaryLater), PyStr(SummaryAbsent)}}

InitPrompt ==
    /\ app \in {"cli", "streamlit"}
    /\ creds = [firecrawl |-> TRUE, openai |-> TRUE]
    /\ clients = TRUE
    /\ pc = "prompt"
    /\ args = NoArgs
    /\ markdown_content = << >>
    /\ listing = << >>
    /\ reply = << >>
    /\ calls = << >>
    /\ extraction_request = << >>
    /\ reply_request = << >>
    /\ stdout = << >>
    /\ exit_code = "running"
    /\ cache = [u \in Urls |-> << >>]
    /\ now = 0
    /\ session_state = [last_result |-> << >>, last_error |-> << >>]

\* The messages extract_listing_info builds for a non-empty markdown.
BuildExtractionPrompt ==
    /\ pc = "prompt"
    /\ \E m \in Markdowns \ {<< >>} :
          /\ markdown_content' = m
          /\ extraction_request' = <<IF app = "cli" THEN CliExtractionPrompt(m)
                                                     ELSE StExtractionPrompt(m)>>
    /\ UNCHANGED <<app, creds, clients, pc, args, listing, reply, calls, reply_request,
                   stdout, exit_code, cache, now, session_state>>

\* The messages generate_reply builds for a listing and its options.
BuildReplyPrompt ==
    /\ pc = "prompt"
    /\ \E li \in ListingInfos(app),
          a \in (IF app = "cli" THEN CliArgs ELSE StArgs) :
          /\ listing' = <<li>>
          /\ args' = [a EXCEPT !.url = li.url]
          /\ reply_request' =
                <<IF app = "cli"
                  THEN CliReplyPrompt(li, a.max_words, a.include_website)
                  ELSE StReplyPrompt(li, a.max_words, a.include_website,
                                     a.applicant_profile, a.custom_prompt)>>
    /\ UNCHANGED <<app, creds, clients, pc, markdown_content, reply, calls,
                   extraction_request, stdout, exit_code, cache, now, session_state>>

NextPrompt == BuildExtractionPrompt \/ BuildReplyPrompt

SpecPrompt == InitPrompt /\ [][NextPrompt]_vars

----------------------------------------------------------------------------
(* Properties of the prompts *)

\* The token occurs in the text.
Has(text, tok) == \E i \in 1..Len(text) : text[i] = tok

\* The tokens of sub occur in the text, contiguous and in order.
HasSeq(text, sub) ==
    \E i \in 0..(Len(text) - Len(sub)) : SubSeq(text, i + 1, i + Len(sub)) = sub

ReplyBuilt == reply_request # << >>
ReplyUser == reply_request[1].user
ReplySystem == reply_request[1].system

\* The disclosure (website/documents) paragraph of the profile in use.
Disclosure(front_end, profile) ==
    IF front_end = "cli" THEN Strip(CLI_WEBSITE_INFO)
    ELSE IF profile = "single" THEN WEBSITE_INFO_SINGLE ELSE WEBSITE_INFO

WebsiteHeading ==
    "WEBSITE SECTION (include this exactly if the listing mentions required documents like SCHUFA, income proof, etc.):"
WebsiteItem == "Our website paragraph (include exactly as provided)"
WebsiteStub == "Skip this section"

\* C2 as claimed: the user instructions contain the profile's disclosure
\* paragraph verbatim iff includeDisclosure; when it is false the section is
\* entirely omitted: no content, no mention of the section, no stub for it.
C2_AsClaimed ==
    ReplyBuilt =>
        LET d == Disclosure(app, args.applicant_profile) IN
        /\ args.include_website <=> HasSeq(ReplyUser, d)
        /\ ~args.include_website =>
              /\ ~Has(ReplyUser, WebsiteHeading)
              /\ ~Has(ReplyUser, WebsiteItem)
              /\ ~Has(ReplyUser, WebsiteStub)

\* C2 as amended: the user instructions contain the profile's disclosure
\* paragraph verbatim, under its heading and announced as item 5 of the
\* structure, iff includeDisclosure; when it is false they contain neither
\* paragraph, heading nor announcement, but item 5 of the structure stays
\* in place as the stub "Skip this section".
C2_DisclosureIffIncluded ==
    ReplyBuilt =>
        LET d == Disclosure(app, args.applicant_profile) IN
        /\ args.include_website <=> HasSeq(ReplyUser, d)
        /\ args.include_website <=> Has(ReplyUser, WebsiteHeading)
        /\ args.include_website <=> Has(ReplyUser, WebsiteItem)
        /\ ~args.include_website <=> Has(ReplyUser, WebsiteStub)
        /\ ~args.include_website =>
              /\ ~HasSeq(ReplyUser, WEBSITE_INFO)
              /\ ~HasSeq(ReplyUser, WEBSITE_INFO_SINGLE)

\* A reply prompt was built for the single profile without the disclosure.
C2_Witness ==
    /\ ReplyBuilt /\ app = "streamlit"
    /\ args.applicant_profile = "single" /\ ~args.include_website
    /\ Has(ReplyUser, WebsiteStub)

\* The move-in-date case of a listing: what its summary says about the
\* availability date, relative to the ideal date.
DateCase(li) ==
    LET t == Strip(OrEmpty(li.extracted_info)) IN
    IF t = Strip(SummaryEarlier) THEN "earlier"
    ELSE IF t = Strip(SummaryLater) THEN "later"
    ELSE "absent"

\* The rule text of each branch, as either front-end words it.
EarlierRules ==
    {<<"\n- If the listing's move-in date is EARLIER than ", "Februar 2026",
       ": mention that we are flexible regarding the earlier date">>}
    \cup {<<"\n- If the listing's move-in date is EARLIER than ", "Februar 2026",
            ": mention that ", p,
            " flexibel bezueglich des frueheren Datums bin/sind (grammatically correct)">> :
            p \in {"ich", "wir"}}
LaterRules ==
    {<<"\n- If the listing's move-in date is LATER than ", "Februar 2026",
       ": mention that the stated date works perfectly for us">>}
    \cup {<<"\n- If the listing's move-in date is LATER than ", "Februar 2026",
            ": mention that das genannte Datum fuer ", p, " perfekt passt">> :
            p \in {"ich", "wir"}}
AbsentRules ==
    {<<"\n- If there is NO move-in date mentioned: mention that ideally we would move in around ",
       "Februar 2026">>}
IdealDateLine ==
    <<"MOVING-IN DATE RULES (very important):\n- Our ideal move-in date is ", "Februar 2026">>

HasRule(text, rules) == \E r \in rules : HasSeq(text, r)

\* C3 as claimed: the prompt contains the rule text of the branch of the
\* listing's move-in-date case and not the rule text of the other two.
C3_AsClaimed ==
    ReplyBuilt =>
        LET c == DateCase(listing[1]) IN
        /\ HasRule(ReplyUser, EarlierRules) <=> c = "earlier"
        /\ HasRule(ReplyUser, LaterRules) <=> c = "later"
        /\ HasRule(ReplyUser, AbsentRules) <=> c = "absent"

\* C3 as amended: in each of the three move-in-date cases the prompt
\* contains the rule text of that case's branch.
C3_OwnBranchPresent ==
    ReplyBuilt =>
        LET c == DateCase(listing[1]) IN
        /\ c = "earlier" => HasRule(ReplyUser, EarlierRules)
        /\ c = "later" => HasRule(ReplyUser, LaterRules)
        /\ c = "absent" => HasRule(ReplyUser, AbsentRules)

\* A reply prompt was built for a listing available earlier than the ideal
\* date, and it carries the rule for a later date too.
C3_Witness ==
    /\ ReplyBuilt /\ app = "streamlit"
    /\ DateCase(listing[1]) = "earlier"
    /\ HasRule(ReplyUser, EarlierRules)
    /\ HasRule(ReplyUser, LaterRules)

\* C4: whatever the listing facts, the profile and the options, the reply
\* prompt carries the complete three-way move-in-date rule and the ideal
\* date "Februar 2026"; no branch is selected or dropped.
C4_ThreeWayRuleAlways ==
    ReplyBuilt =>
        /\ HasSeq(ReplyUser, IdealDateLine)
        /\ HasRule(ReplyUser, EarlierRules)
        /\ HasRule(ReplyUser, LaterRules)
        /\ HasRule(ReplyUser, AbsentRules)

\* A reply prompt was built by main.py for a listing without an
\* availability date.
C4_Witness ==
    /\ ReplyBuilt /\ app = "cli"
    /\ DateCase(listing[1]) = "absent"
    /\ HasRule(ReplyUser, EarlierRules)

\* The registry entry of a profile, as the specification lists it.
Registry(profile) ==
    IF profile = "single"
    THEN [biography |-> APPLICANT_INFO_SINGLE,
          sign_off |-> "Viele Gruesse, \n        Minh-Kha",
          pronoun |-> "ich", label |-> "About me", heading |-> "ABOUT ME",
          disclosure |-> WEBSITE_INFO_SINGLE]
    ELSE [biography |-> APPLICANT_INFO_COUPLE,
          sign_off |-> "Viele Gruesse, \n        Nils & Minh-Kha",
          pronoun |-> "wir", label |-> "About us", heading |-> "ABOUT US",
          disclosure |-> WEBSITE_INFO]
OtherProfile(profile) == IF profile = "single" THEN "couple" ELSE "single"

\* A prompt carries the profile's biography, sign-off, pronoun and labels.
RefersTo(user, r) ==
    /\ HasSeq(user, r.biography)
    /\ Has(user, r.sign_off)
    /\ Has(user, r.pronoun)
    /\ Has(user, r.label)
    /\ Has(user, r.heading)

\* A prompt carries no field of the profile.
FreeOf(text, r) ==
    /\ ~HasSeq(text, r.biography)
    /\ ~Has(text, r.sign_off)
    /\ ~Has(text, r.pronoun)
    /\ ~Has(text, r.label)
    /\ ~Has(text, r.heading)
    /\ ~HasSeq(text, r.disclosure)

\* C5 as claimed: with every combination of the other options the prompt of
\* a profile refers to that profile's biography, sign-off, pronoun, label
\* and disclosure paragraph, and carries nothing of the other profile.
C5_AsClaimed ==
    (ReplyBuilt /\ app = "streamlit") =>
        LET own == Registry(args.applicant_profile)
            other == Registry(OtherProfile(args.applicant_profile)) IN
        /\ RefersTo(ReplyUser, own)
        /\ HasSeq(ReplyUser, own.disclosure)
        /\ FreeOf(ReplyUser, other)
        /\ FreeOf(ReplySystem, other)

\* C5 as amended: the prompt of a profile refers to that profile's
\* biography, sign-off, pronoun and label with every combination of the
\* other options, and to its disclosure paragraph exactly when
\* includeDisclosure is true; it carries no field of the other profile.
C5_OneProfileOnly ==
    (ReplyBuilt /\ app = "streamlit") =>
        LET own == Registry(args.applicant_profile)
            other == Registry(OtherProfile(args.applicant_profile)) IN
        /\ RefersTo(ReplyUser, own)
        /\ args.include_website <=> HasSeq(ReplyUser, own.disclosure)
        /\ FreeOf(ReplyUser, other)
        /\ FreeOf(ReplySystem, other)

\* A reply prompt was built for the single profile with the disclosure.
C5_Witness ==
    /\ ReplyBuilt /\ app = "streamlit"
    /\ args.applicant_profile = "single" /\ args.include_website
    /\ HasSeq(ReplyUser, WEBSITE_INFO_SINGLE)

\* C10: the listing content embedded in the extraction prompt is exactly the
\* first min(len(rawContent), 15000) characters of rawContent.
C10_ContentIsCappedPrefix ==
    extraction_request # << >> =>
        LET e == extraction_request[1].content
            len == RLen(markdown_content) IN
        /\ RLen(e) = IF len < 15000 THEN len ELSE 15000
        /\ \A i \in 1..RLen(e) : RCharAt(e, i) = RCharAt(markdown_content, i)

\* An extraction prompt was built for a markdown longer than the cap.
C10_Witness ==
    /\ extraction_request # << >>
    /\ RLen(markdown_content) > 15000
    /\ RLen(extraction_request[1].content) = 15000

----------------------------------------------------------------------------
(* Properties of the pipeline *)

\* The services called for the request, in order.
Svcs == [i \in 1..Len(calls) |-> calls[i].svc]
Called(svc) == \E i \in 1..Len(calls) : calls[i].svc = svc

\* A generation result the specification accepts: not empty after trimming.
NonBlank(content) == Strip(OrEmpty(content)) # << >>

\* The extraction stage has completed successfully: there are listing facts
\* and their structured summary is not blank.
ExtractionSucceeded == listing # << >> /\ NonBlank(listing[1].extracted_info)

\* The request has ended in an error.
RequestFailed ==
    \/ app = "cli" /\ exit_code = "1"
    \/ app = "streamlit" /\ pc = "shown" /\ session_state.last_error # << >>

PrintedFactsOrReply == \E i \in 1..Len(stdout) : stdout[i].what \in {"facts", "reply"}

\* C1 as claimed: the stages run in the order fetch, extraction, reply,
\* present; each external call is made at most once; once a stage has failed
\* no later stage is invoked and the request ends with the error, without
\* facts or a message for it; the reply call is never made unless the
\* extraction has completed successfully.
C1_AsClaimed ==
    /\ Svcs \in {<< >>, <<"fetch">>, <<"fetch", "extract">>,
                 <<"fetch", "extract", "reply">>, <<"reply">>}
    /\ Called("extract") => markdown_content # << >>
    /\ (pc = "reply" \/ Called("reply")) => ExtractionSucceeded
    /\ RequestFailed =>
          /\ reply = << >>
          /\ app = "cli" => ~PrintedFactsOrReply

\* C6 as claimed: with maxWords <= 0 or a profile outside {couple, single}
\* no reply prompt is produced and the generation service is not called for
\* the reply.
C6_AsClaimed ==
    (Called("reply") \/ reply_request # << >>) =>
        /\ args.max_words > 0
        /\ args.applicant_profile \in {"couple", "single"}

\* C7 as claimed: a blank generation result is never accepted: blank listing
\* facts are never passed on to the reply stage and a blank message is never
\* returned or presented.
C7_AsClaimed ==
    /\ listing # << >> => NonBlank(listing[1].extracted_info)
    /\ reply # << >> => NonBlank(reply[1])
    /\ session_state.last_result # << >> =>
          Strip(session_state.last_result[1].reply) # << >>

\* C8 as claimed: no external call is made while a credential is missing.
C8_AsClaimed ==
    calls # << >> => creds.firecrawl /\ creds.openai

\* C9: in the Streamlit front-end listing facts are cached by url for one
\* hour and a message is never cached.  A run for a url whose facts were
\* stored less than 3600 seconds ago goes straight to the reply stage with
\* exactly those facts and without a call; any other run with a url has no
\* facts yet and goes to the fetch; the fetch and extraction stages make
\* their call; an entry is written only by a successful extraction, for the
\* url of the run, with the facts it returns and the time of writing; and
\* every run that reaches the reply stage makes a new reply call.
C9_FactsCachedOneHourReplyNever ==
    [][app = "streamlit" =>
        /\ (pc = "idle" /\ pc' # "idle" /\ args'.url # << >>) =>
              LET u == args'.url IN
              IF cache[u] # << >> /\ now - cache[u][1].stored < 3600
              THEN /\ pc' = "reply"
                   /\ listing' = <<cache[u][1].value>>
                   /\ calls' = << >>
                   /\ cache' = cache
              ELSE /\ pc' \in {"fetch", "shown"}
                   /\ (creds.firecrawl /\ creds.openai) => pc' = "fetch"
                   /\ listing' = << >>
        /\ (pc = "fetch" /\ pc' # "fetch") =>
              calls' = Append(calls, Call("fetch", creds.firecrawl))
        /\ (pc = "extract" /\ pc' # "extract") =>
              calls' = Append(calls, Call("extract", creds.openai))
        /\ \A u \in Urls :
              (cache'[u] # cache[u] /\ cache'[u] # << >>) =>
                  /\ pc = "extract" /\ pc' = "reply" /\ u = args.url
                  /\ cache'[u] = <<[value |-> listing'[1], stored |-> now]>>
        /\ pc = "reply" => Svcs \in {<< >>, <<"fetch", "extract">>}
        /\ (pc = "reply" /\ pc' # "reply") =>
              calls' = Append(calls, Call("reply", creds.openai))
    ]_vars

\* A run was served from the cache: it is at the reply stage with the facts
\* stored by an earlier run and has made no call.
C9_Witness ==
    /\ app = "streamlit" /\ pc = "reply" /\ calls = << >>
    /\ listing = <<cache[args.url][1].value>>
    /\ now > cache[args.url][1].stored

\* The failure messages each part of the run handler can leave.
RunStartErrors == {"Bitte eine URL eingeben.", MsgStNoSecrets}
StageErrors ==
    [fetch |-> {MsgFetchFailed, MsgStNoContent},
     extract |-> {MsgGenerationFailed, MsgStEmptyExtraction},
     reply |-> {MsgGenerationFailed, MsgStEmptyReply, MsgStInvalidProfile, MsgStNoSecrets}]

\* C11: in the Streamlit front-end last_result is changed only by a
\* successful run, which overwrites it with that run's url, facts and reply
\* and leaves last_error absent, or by the reset button, which removes both.
\* Every run first clears the previous last_error: a run that goes on has
\* none, a run that fails at once (an empty or blank url, for which no
\* external call is made, or missing secrets) has exactly its own message.
\* A run that fails at a stage leaves last_result unchanged and sets
\* last_error to the failure message.  Nothing else writes either entry.
C11_LastResultFrame ==
    [][app = "streamlit" =>
        LET lr == session_state.last_result
            le == session_state.last_error
            lr2 == session_state'.last_result
            le2 == session_state'.last_error
            reset == pc = "idle" /\ pc' = "idle" /\ lr2 = << >> /\ le2 = << >>
            success == pc = "reply" /\ pc' = "shown" /\ reply' # << >>
        IN
        /\ lr2 # lr => (reset \/ success)
        /\ le2 # le => (reset \/ pc \in {"idle", "fetch", "extract", "reply"})
        /\ success =>
              /\ lr2 = <<[url |-> args.url, listing_info |-> listing[1],
                          reply |-> reply'[1].text]>>
              /\ le2 = << >>
        /\ (pc = "idle" /\ pc' # "idle") =>
              /\ lr2 = lr
              /\ IF args'.url = << >>
                 THEN pc' = "shown" /\ calls' = << >> /\ le2 = <<"Bitte eine URL eingeben.">>
                 ELSE IF pc' = "shown"
                 THEN calls' = << >> /\ le2 = <<MsgStNoSecrets>>
                 ELSE le2 = << >>
        /\ (pc \in {"fetch", "extract", "reply"} /\ pc' = "shown" /\ reply' = << >>) =>
              /\ lr2 = lr
              /\ \E m \in StageErrors[pc] : le2 = <<m>>
        /\ pc \in {"fetch", "extract", "reply"} => le = << >>
        /\ (pc = "shown" /\ pc' = "idle") => (lr2 = lr /\ le2 = le)
    ]_vars

\* A run has failed while an earlier run's result was stored: the error is
\* set and the earlier result is still there.
C11_Witness ==
    /\ app = "streamlit" /\ pc = "shown"
    /\ session_state.last_error # << >>
    /\ session_state.last_result # << >>
    /\ reply = << >>

====
